---------------------------- MODULE Spec2Model ----------------------------
(***************************************************************************)
(* A model of scripts/create_template.py: the builder of the report        *)
(* template.  An invocation of the script creates an empty document,       *)
(* configures three styles, appends the template's blocks one statement at *)
(* a time, saves the document to the fixed output path and prints what it  *)
(* did; any exception is caught by the script's entry point.               *)
(***************************************************************************)
EXTENDS Integers, Sequences, FiniteSets, TLC

VARIABLES
    pc,          \* pc[p]: where invocation p of the script stands
    ip,          \* ip[p]: index of the next statement of create_template's body
    styles,      \* styles[p]: the style definitions of p's document
    doc,         \* doc[p]: the blocks of p's document, in order
    file,        \* the file at output_path
    offset,      \* offset[p]: the position of p's file handle, in chunks
    opens,       \* opens[p]: how many times p called doc.save
    exc,         \* exc[p]: the exception p's create_template raised, or "none"
    out,         \* out[p]: the lines p printed
    exitStatus,  \* exitStatus[p]: the process's exit status, or -1 while it runs
    launched,    \* the invocations in the order they were started
    data,        \* the data object handed to the renderer, or NoData
    rendered     \* what the renderer made of the template, or NotRendered

vars == <<pc, ip, styles, doc, file, offset, opens, exc, out, exitStatus,
          launched, data, rendered>>

\* The invocations of the script that may run, one after the other or at once.
Procs == {"A", "B"}

\* The number of write calls the save of one document takes.
NumChunks == 3
\* The most elements of the themes iterable in a data object handed to the renderer.
MaxThemes == 1
\* The most elements of the iterables of a themes element.
MaxItems == 2
\* The most elements of the priority_themes and of the roadmap iterable.
MaxTop == 1

-----------------------------------------------------------------------------
(* The text of a block: literal text and tags.  A tag's text "{#name}" is   *)
(* kept as its sigil ("#", "/" or none), its identifier and the property    *)
(* that follows a dot ("length"), so that a reader of the template has to   *)
(* classify it.                                                             *)

Text(s) == [k |-> "text", sigil |-> "", name |-> s, prop |-> ""]
Tag(n) == [k |-> "tag", sigil |-> "", name |-> n, prop |-> ""]
OpenTag(n) == [k |-> "tag", sigil |-> "#", name |-> n, prop |-> ""]
CloseTag(n) == [k |-> "tag", sigil |-> "/", name |-> n, prop |-> ""]
ItemTag == [k |-> "tag", sigil |-> "", name |-> ".", prop |-> ""]
PropTag(n, q) == [k |-> "tag", sigil |-> "", name |-> n, prop |-> q]

(* The statements of create_template's body that touch the document.       *)
Paragraph(line, text, style, align, italic) ==
    [op |-> "add_paragraph", line |-> line, text |-> text, style |-> style,
     align |-> align, bold |-> FALSE, italic |-> italic]
Para(line, text) == Paragraph(line, text, "Normal", "", FALSE)
Heading(line, text, level) ==
    [op |-> "add_heading", line |-> line, text |-> text,
     style |-> CASE level = 1 -> "Heading 1"
                 [] level = 2 -> "Heading 2"
                 [] OTHER -> "Heading 3",
     align |-> "", bold |-> FALSE, italic |-> FALSE]
PageBreak(line) ==
    [op |-> "add_page_break", line |-> line, text |-> <<>>, style |-> "Normal",
     align |-> "", bold |-> FALSE, italic |-> FALSE]
AddRunStmt(line, text, bold) ==
    [op |-> "add_run", line |-> line, text |-> text, style |-> "",
     align |-> "", bold |-> bold, italic |-> FALSE]

CoverPage == <<
    Paragraph(38, <<Text("Microsoft 365 Security Assessment")>>, "Title", "center", FALSE),
    Paragraph(41, <<Tag("customer_name")>>, "Normal", "center", FALSE),
    Paragraph(47, <<Tag("assessment_date")>>, "Normal", "center", FALSE),
    Para(53, <<>>),
    Paragraph(55, <<Text("Prepared by: "), Tag("team_name")>>, "Normal", "center", TRUE),
    PageBreak(61) >>

ExecutiveSummary == <<
    Heading(64, <<Text("Executive Summary")>>, 1),
    Para(66, <<Text("This report presents the findings of a comprehensive security assessment of "),
               Tag("customer_name"),
               Text("'s Microsoft 365 environment conducted on "),
               Tag("assessment_date"),
               Text(". The assessment evaluated security configurations across identity management, email protection, data security, and collaboration settings against Microsoft and CISA security baselines.")>>),
    Heading(73, <<Text("Overall Security Posture")>>, 2),
    Para(76, <<>>),
    AddRunStmt(77, <<Text("Security Score: ")>>, TRUE),
    AddRunStmt(78, <<Tag("security_score"), Text("%")>>, FALSE),
    Para(80, <<>>),
    AddRunStmt(81, <<Text("Risk Level: ")>>, TRUE),
    AddRunStmt(82, <<Tag("risk_level")>>, FALSE),
    Para(84, <<>>),
    Para(85, <<Tag("assessment_summary")>>),
    Heading(88, <<Text("Findings Summary")>>, 2),
    Para(90, <<>>),
    AddRunStmt(91, <<Text("Total Controls Assessed: ")>>, TRUE),
    AddRunStmt(92, <<Tag("total_findings")>>, FALSE),
    Para(94, <<>>),
    AddRunStmt(95, <<Text("Passed: ")>>, TRUE),
    AddRunStmt(96, <<Tag("passed_count")>>, FALSE),
    Para(98, <<>>),
    AddRunStmt(99, <<Text("Failed: ")>>, TRUE),
    AddRunStmt(100, <<Tag("failed_count")>>, FALSE),
    Para(102, <<>>),
    AddRunStmt(103, <<Text("Not Applicable: ")>>, TRUE),
    AddRunStmt(104, <<Tag("na_count")>>, FALSE),
    Heading(107, <<Text("Failed Findings by Severity")>>, 3),
    Para(109, <<Text("Critical: "), Tag("critical_count")>>),
    Para(110, <<Text("High: "), Tag("high_count")>>),
    Para(111, <<Text("Medium: "), Tag("medium_count")>>),
    Para(112, <<Text("Low: "), Tag("low_count")>>),
    Heading(115, <<Text("Score Movement")>>, 2),
    Para(116, <<Tag("score_movement_message")>>),
    Heading(119, <<Text("Priority Areas")>>, 2),
    Para(121, <<Text("Based on the assessment findings, the following security themes have been prioritized for remediation:")>>),
    Para(127, <<OpenTag("priority_themes")>>),
    Paragraph(128, <<Tag("title"), Text(" ("), Tag("priority"), Text(") - "),
                     Tag("failed_count"), Text(" failed controls")>>,
              "List Bullet", "", FALSE),
    Para(129, <<CloseTag("priority_themes")>>),
    PageBreak(131) >>

Roadmap == <<
    Heading(134, <<Text("Remediation Roadmap")>>, 1),
    Para(136, <<Text("The following roadmap outlines a phased approach to addressing identified security gaps, organized by priority level and recommended timeline.")>>),
    Heading(142, <<Text("Prioritized Themes")>>, 2),
    Para(144, <<OpenTag("roadmap")>>),
    Para(145, <<>>),
    AddRunStmt(146, <<Tag("priority"), Text(": ")>>, TRUE),
    AddRunStmt(147, <<Tag("theme"), Text(" ("), Tag("window"), Text(") - "),
                      Tag("failed_count"), Text(" findings")>>, FALSE),
    Para(148, <<CloseTag("roadmap")>>),
    PageBreak(150) >>

DetailedFindings == <<
    Heading(153, <<Text("Detailed Findings by Security Theme")>>, 1),
    Para(155, <<Text("This section provides detailed analysis of each security theme, including business context, specific findings, and actionable remediation guidance.")>>),
    Para(161, <<OpenTag("themes")>>),
    Heading(164, <<Tag("title")>>, 2),
    Para(167, <<>>),
    AddRunStmt(168, <<Text("Priority: ")>>, TRUE),
    AddRunStmt(169, <<Tag("priority"), Text(" ("), Tag("window"), Text(")")>>, FALSE),
    Para(171, <<>>),
    AddRunStmt(172, <<Text("Risk Level: ")>>, TRUE),
    AddRunStmt(173, <<Tag("risk_level")>>, FALSE),
    Para(175, <<>>),
    AddRunStmt(176, <<Text("Pass Rate: ")>>, TRUE),
    AddRunStmt(177, <<Tag("pass_rate"), Text("%")>>, FALSE),
    Heading(180, <<Text("Business Rationale")>>, 3),
    Para(181, <<Tag("business_rationale")>>),
    Heading(183, <<Text("Business Impact")>>, 3),
    Para(184, <<Tag("business_impact")>>),
    Heading(187, <<Text("Failed Controls ("), PropTag("failed_findings", "length"),
                   Text(")")>>, 3),
    Para(189, <<OpenTag("failed_findings")>>),
    Paragraph(190, <<Tag("control_id"), Text(": "), Tag("title"),
                     Text(" (Severity: "), Tag("severity"), Text(")")>>,
              "List Bullet", "", FALSE),
    Para(191, <<CloseTag("failed_findings")>>),
    Heading(194, <<Text("Recommendation Summary")>>, 3),
    Para(195, <<Tag("recommendation_summary")>>),
    Heading(197, <<Text("Remediation Steps")>>, 3),
    Para(198, <<OpenTag("remediation_steps")>>),
    Paragraph(199, <<ItemTag>>, "List Number", "", FALSE),
    Para(200, <<CloseTag("remediation_steps")>>),
    Heading(202, <<Text("Operational Notes")>>, 3),
    Para(203, <<OpenTag("operational_notes")>>),
    Paragraph(204, <<ItemTag>>, "List Bullet", "", FALSE),
    Para(205, <<CloseTag("operational_notes")>>),
    Para(207, <<>>),
    Para(209, <<CloseTag("themes")>>),
    PageBreak(211) >>

Appendix == <<
    Heading(214, <<Text("Appendix")>>, 1),
    Heading(216, <<Text("Assessment Methodology")>>, 2),
    Para(217, <<Text("This assessment was conducted using ScubaGear, an automated security configuration assessment tool developed by CISA. ScubaGear evaluates Microsoft 365 configurations against the Secure Cloud Business Applications (SCuBA) security baseline.")>>),
    Heading(223, <<Text("Assessment Metadata")>>, 2),
    Para(224, <<Text("Tenant ID: "), Tag("tenant_id")>>),
    Para(225, <<Text("Assessment Date: "), Tag("assessment_date")>>),
    Para(226, <<Text("Run ID: "), Tag("run_id")>>),
    Para(227, <<Text("Tool: ScubaGear via m365-assess wrapper")>>) >>

\* The statements of create_template between the style set-up and the save,
\* as written.
Statements == CoverPage \o ExecutiveSummary \o Roadmap \o DetailedFindings \o Appendix

(* Variants of the body, each with one slip of the kind the template's     *)
(* author could make; the properties below are checked to tell them from   *)
(* the body as written.                                                    *)

WithoutLine(ss, line) == SelectSeq(ss, LAMBDA s : s.line # line)

ReplaceLine(ss, stmt) ==
    [i \in 1..Len(ss) |-> IF ss[i].line = stmt.line THEN stmt ELSE ss[i]]

RECURSIVE InsertAfterLine(_, _, _)
InsertAfterLine(ss, line, stmt) ==
    IF ss = <<>> THEN <<>>
    ELSE IF ss[1].line = line THEN <<ss[1], stmt>> \o Tail(ss)
    ELSE <<ss[1]>> \o InsertAfterLine(Tail(ss), line, stmt)

\* {/failed_findings} is forgotten.
Program_MissingClose == WithoutLine(Statements, 191)

\* {tenant_id} is misspelt.
Program_MisspeltScalar ==
    ReplaceLine(Statements, Para(224, <<Text("Tenant ID: "), Tag("tenantid")>>))

\* The roadmap item uses {title}, a field of the other iterables' records.
Program_WrongField ==
    ReplaceLine(Statements,
                AddRunStmt(147, <<Tag("title"), Text(" ("), Tag("window"), Text(") - "),
                                  Tag("failed_count"), Text(" findings")>>, FALSE))

\* {/failed_findings} is emitted after {/remediation_steps}.
Program_ThreeLevels ==
    InsertAfterLine(WithoutLine(Statements, 191), 200,
                    Para(191, <<CloseTag("failed_findings")>>))

\* The theme header uses {theme}, the roadmap's name for a theme's title.
Program_ThemeForTitle == ReplaceLine(Statements, Heading(164, <<Tag("theme")>>, 2))

\* The failed-finding list item is emitted after {/failed_findings}.
Program_ItemOutsideSection ==
    InsertAfterLine(WithoutLine(Statements, 190), 191,
                    Paragraph(190, <<Tag("control_id"), Text(": "), Tag("title"),
                                     Text(" (Severity: "), Tag("severity"), Text(")")>>,
                              "List Bullet", "", FALSE))

\* The body create_template executes.
Program == Statements


-----------------------------------------------------------------------------
(* What each statement does to the document (python-docx): add_paragraph   *)
(* appends a paragraph holding one run when its text is not empty,         *)
(* add_heading appends a paragraph of style "Heading <level>",             *)
(* add_page_break appends a paragraph whose run is a page break, and       *)
(* add_run appends a run to the paragraph its variable is bound to, which  *)
(* in this script is always the paragraph added last.                      *)

RunOf(s) == [text |-> s.text, bold |-> s.bold, italic |-> s.italic]

BlockOf(s) ==
    [line |-> s.line,
     style |-> s.style,
     align |-> s.align,
     runs |-> CASE s.op = "add_page_break" ->
                     <<[text |-> <<[k |-> "break", sigil |-> "", name |-> "page", prop |-> ""]>>,
                        bold |-> FALSE, italic |-> FALSE]>>
                [] s.text = <<>> -> <<>>
                [] OTHER -> <<RunOf(s)>>]

Exec(d, s) ==
    IF s.op = "add_run"
    THEN [d EXCEPT ![Len(d)].runs = Append(@, RunOf(s))]
    ELSE Append(d, BlockOf(s))

\* Document(): the default template's body holds no block.
EmptyDocument == <<>>

\* The style set-up of create_template.
ConfiguredStyles ==
    [Title |-> [size |-> 24, bold |-> TRUE, rgb |-> <<0, 51, 102>>],
     Heading1 |-> [size |-> 18, bold |-> FALSE, rgb |-> <<0, 51, 102>>],
     Heading2 |-> [size |-> 14, bold |-> FALSE, rgb |-> <<0, 102, 204>>]]

NoStyles == [Title |-> <<>>, Heading1 |-> <<>>, Heading2 |-> <<>>]

-----------------------------------------------------------------------------
(* The file at output_path.  doc.save opens it for writing, which creates  *)
(* it or cuts it to length 0, and writes the package through its own file  *)
(* handle, NumChunks writes one after the other.  A cell of the file is    *)
(* what one write left there: the blocks it holds and the invocation that  *)
(* wrote it ("old" for content older than every invocation).               *)

\* The k-th of the NumChunks pieces the serialised document is written in.
Chunk(d, k) ==
    SubSeq(d, ((k - 1) * Len(d)) \div NumChunks + 1, (k * Len(d)) \div NumChunks)

Hole == [by |-> "none", blocks |-> <<>>]

OldCell == [by |-> "old", blocks |-> <<>>]

OldFile(n) == [exists |-> TRUE, cells |-> [i \in 1..n |-> OldCell]]

NoFile == [exists |-> FALSE, cells |-> <<>>]

\* A variant that opens the file without cutting it.
OpenKeepingContent(f) == [exists |-> TRUE, cells |-> f.cells]

\* Opening for writing: the file exists afterwards and holds nothing.
OpenForWriting(f) == [exists |-> TRUE, cells |-> <<>>]

\* A write of cell c at position o of a handle: over what is there, at the
\* end, or past the end (the gap reads as zeros).
WriteAt(cells, o, c) ==
    IF o <= Len(cells)
    THEN [cells EXCEPT ![o] = c]
    ELSE cells \o [i \in 1..(o - 1 - Len(cells)) |-> Hole] \o <<c>>

\* The document a reader of the file gets: the blocks of its cells, in order.
RECURSIVE FileBlocks(_)
FileBlocks(cells) ==
    IF cells = <<>> THEN <<>>
    ELSE cells[1].blocks \o FileBlocks(Tail(cells))

\* The lines create_template prints after the save.
SummaryLines ==
    <<"Template created: output_path",
      "Docxtemplater tags used:",
      "  - Simple variables: {customer_name}, {security_score}, etc.",
      "  - Arrays: {#themes}...{/themes}, {#failed_findings}...{/failed_findings}",
      "  - Array properties: {title}, {priority}, {severity}, etc.",
      "  - Array length: {failed_findings.length}",
      "  - Array items: {.} for simple array values">>

\* The lines the entry point prints for an exception e.
ErrorLines(e) == <<"Error: " \o e, "traceback">>

NoData == [themes |-> <<>>, priority_themes |-> -1, roadmap |-> -1]

NotRendered == [ok |-> FALSE, blocks |-> <<>>, done |-> FALSE]

-----------------------------------------------------------------------------
(* The state after construction: nothing runs; the output path holds no    *)
(* file, or a file someone left there (shorter or longer than the          *)
(* template's).                                                            *)

Init ==
    /\ pc = [p \in Procs |-> "idle"]
    /\ ip = [p \in Procs |-> 1]
    /\ styles = [p \in Procs |-> NoStyles]
    /\ doc = [p \in Procs |-> EmptyDocument]
    /\ file \in {NoFile} \cup {OldFile(n) : n \in {1, NumChunks + 1}}
    /\ offset = [p \in Procs |-> 0]
    /\ opens = [p \in Procs |-> 0]
    /\ exc = [p \in Procs |-> "none"]
    /\ out = [p \in Procs |-> <<>>]
    /\ exitStatus = [p \in Procs |-> -1]
    /\ launched = <<>>
    /\ data = NoData
    /\ rendered = NotRendered

\* The script is run: __main__ calls create_template.
Start(p) ==
    /\ pc[p] = "idle"
    /\ pc' = [pc EXCEPT ![p] = "configure"]
    /\ launched' = Append(launched, p)
    /\ UNCHANGED <<ip, styles, doc, file, offset, opens, exc, out, exitStatus,
                   data, rendered>>

\* doc = Document() and the style set-up.
ConfigureStyles(p) ==
    /\ pc[p] = "configure"
    /\ doc' = [doc EXCEPT ![p] = EmptyDocument]
    /\ styles' = [styles EXCEPT ![p] = ConfiguredStyles]
    /\ ip' = [ip EXCEPT ![p] = 1]
    /\ pc' = [pc EXCEPT ![p] = "build"]
    /\ UNCHANGED <<file, offset, opens, exc, out, exitStatus, launched,
                   data, rendered>>

\* One statement of the body is executed; after the last one comes the save.
\* doc.add_paragraph(text, style)
AddParagraph(p) ==
    /\ pc[p] = "build"
    /\ ip[p] <= Len(Program)
    /\ Program[ip[p]].op = "add_paragraph"
    /\ doc' = [doc EXCEPT ![p] = Exec(doc[p], Program[ip[p]])]
    /\ ip' = [ip EXCEPT ![p] = ip[p] + 1]
    /\ pc' = [pc EXCEPT ![p] = IF ip[p] = Len(Program) THEN "save" ELSE "build"]
    /\ UNCHANGED <<styles, file, offset, opens, exc, out, exitStatus, launched,
                   data, rendered>>

\* doc.add_heading(text, level)
AddHeading(p) ==
    /\ pc[p] = "build"
    /\ ip[p] <= Len(Program)
    /\ Program[ip[p]].op = "add_heading"
    /\ doc' = [doc EXCEPT ![p] = Exec(doc[p], Program[ip[p]])]
    /\ ip' = [ip EXCEPT ![p] = ip[p] + 1]
    /\ pc' = [pc EXCEPT ![p] = IF ip[p] = Len(Program) THEN "save" ELSE "build"]
    /\ UNCHANGED <<styles, file, offset, opens, exc, out, exitStatus, launched,
                   data, rendered>>

\* doc.add_page_break()
AddPageBreak(p) ==
    /\ pc[p] = "build"
    /\ ip[p] <= Len(Program)
    /\ Program[ip[p]].op = "add_page_break"
    /\ doc' = [doc EXCEPT ![p] = Exec(doc[p], Program[ip[p]])]
    /\ ip' = [ip EXCEPT ![p] = ip[p] + 1]
    /\ pc' = [pc EXCEPT ![p] = IF ip[p] = Len(Program) THEN "save" ELSE "build"]
    /\ UNCHANGED <<styles, file, offset, opens, exc, out, exitStatus, launched,
                   data, rendered>>

\* paragraph.add_run(text)
AddRun(p) ==
    /\ pc[p] = "build"
    /\ ip[p] <= Len(Program)
    /\ Program[ip[p]].op = "add_run"
    /\ doc' = [doc EXCEPT ![p] = Exec(doc[p], Program[ip[p]])]
    /\ ip' = [ip EXCEPT ![p] = ip[p] + 1]
    /\ pc' = [pc EXCEPT ![p] = IF ip[p] = Len(Program) THEN "save" ELSE "build"]
    /\ UNCHANGED <<styles, file, offset, opens, exc, out, exitStatus, launched,
                   data, rendered>>

\* A variant of the open that waits while another invocation has the file
\* open.
SaveOpenExclusive(p) ==
    /\ pc[p] = "save"
    /\ \A q \in Procs \ {p} : pc[q] \notin {"write", "close"}
    /\ opens' = [opens EXCEPT ![p] = opens[p] + 1]
    /\ file' = OpenForWriting(file)
    /\ offset' = [offset EXCEPT ![p] = 1]
    /\ pc' = [pc EXCEPT ![p] = "write"]
    /\ UNCHANGED <<ip, styles, doc, exc, out, exitStatus, launched, data, rendered>>

\* doc.save(output_path) opens the file.
SaveOpen(p) ==
    /\ pc[p] = "save"
    /\ opens' = [opens EXCEPT ![p] = opens[p] + 1]
    /\ file' = OpenForWriting(file)
    /\ offset' = [offset EXCEPT ![p] = 1]
    /\ pc' = [pc EXCEPT ![p] = "write"]
    /\ UNCHANGED <<ip, styles, doc, exc, out, exitStatus, launched, data, rendered>>

\* The open fails (permission denied, missing parent directory): the file is
\* left as it was and the exception leaves create_template.
SaveOpenFails(p) ==
    /\ pc[p] = "save"
    /\ opens' = [opens EXCEPT ![p] = opens[p] + 1]
    /\ exc' = [exc EXCEPT ![p] = "cannot open output_path"]
    /\ pc' = [pc EXCEPT ![p] = "except"]
    /\ UNCHANGED <<ip, styles, doc, file, offset, out, exitStatus, launched,
                   data, rendered>>

\* One write of the save, at the handle's position.
SaveWrite(p) ==
    /\ pc[p] = "write"
    /\ file' = [file EXCEPT !.cells =
                   WriteAt(@, offset[p], [by |-> p, blocks |-> Chunk(doc[p], offset[p])])]
    /\ offset' = [offset EXCEPT ![p] = offset[p] + 1]
    /\ pc' = [pc EXCEPT ![p] = IF offset[p] = NumChunks THEN "close" ELSE "write"]
    /\ UNCHANGED <<ip, styles, doc, opens, exc, out, exitStatus, launched,
                   data, rendered>>

\* A write fails (disk full): what was written stays.
SaveWriteFails(p) ==
    /\ pc[p] = "write"
    /\ exc' = [exc EXCEPT ![p] = "cannot write output_path"]
    /\ pc' = [pc EXCEPT ![p] = "except"]
    /\ UNCHANGED <<ip, styles, doc, file, offset, opens, out, exitStatus,
                   launched, data, rendered>>

\* The save returns and create_template prints its summary.
PrintSummary(p) ==
    /\ pc[p] = "close"
    /\ out' = [out EXCEPT ![p] = out[p] \o SummaryLines]
    /\ pc' = [pc EXCEPT ![p] = "end"]
    /\ UNCHANGED <<ip, styles, doc, file, offset, opens, exc, exitStatus,
                   launched, data, rendered>>

\* except Exception as e: the error and the traceback are printed.
ExceptHandler(p) ==
    /\ pc[p] = "except"
    /\ out' = [out EXCEPT ![p] = out[p] \o ErrorLines(exc[p])]
    /\ pc' = [pc EXCEPT ![p] = "end"]
    /\ UNCHANGED <<ip, styles, doc, file, offset, opens, exc, exitStatus,
                   launched, data, rendered>>

\* The script reaches its end: the interpreter exits with status 0.
Exit(p) ==
    /\ pc[p] = "end"
    /\ exitStatus' = [exitStatus EXCEPT ![p] = 0]
    /\ pc' = [pc EXCEPT ![p] = "exited"]
    /\ UNCHANGED <<ip, styles, doc, file, offset, opens, exc, out, launched,
                   data, rendered>>

\* No other invocation is between its start and its exit.
Alone(p) == \A q \in Procs \ {p} : pc[q] \in {"idle", "exited"}

\* The script is run while no other invocation runs.
StartAlone(p) == Alone(p) /\ Start(p)

\* The invocations of the script run one after the other: the mode the
\* script is written for.
Next ==
    \E p \in Procs :
        \/ StartAlone(p)
        \/ ConfigureStyles(p)
        \/ AddParagraph(p)
        \/ AddHeading(p)
        \/ AddPageBreak(p)
        \/ AddRun(p)
        \/ SaveOpen(p)
        \/ SaveOpenFails(p)
        \/ SaveWrite(p)
        \/ SaveWriteFails(p)
        \/ PrintSummary(p)
        \/ ExceptHandler(p)
        \/ Exit(p)

Spec == Init /\ [][Next]_vars

\* The invocations run as separate processes, started at any time, their
\* steps in any interleaving.
NextConcurrent ==
    \E p \in Procs :
        \/ Start(p)
        \/ ConfigureStyles(p)
        \/ AddParagraph(p)
        \/ AddHeading(p)
        \/ AddPageBreak(p)
        \/ AddRun(p)
        \/ SaveOpen(p)
        \/ SaveOpenFails(p)
        \/ SaveWrite(p)
        \/ SaveWriteFails(p)
        \/ PrintSummary(p)
        \/ ExceptHandler(p)
        \/ Exit(p)

SpecConcurrent == Init /\ [][NextConcurrent]_vars

-----------------------------------------------------------------------------
(* Reading the tags of a block sequence: the tags in block order, each     *)
(* with the index of its block, its kind, and the sections open where it   *)
(* stands.                                                                 *)

\* The sequences ss[lo], ..., ss[hi] joined.
RECURSIVE FlattenRange(_, _, _)
FlattenRange(ss, lo, hi) ==
    IF lo > hi THEN <<>>
    ELSE IF lo = hi THEN ss[lo]
    ELSE LET mid == (lo + hi) \div 2
         IN  FlattenRange(ss, lo, mid) \o FlattenRange(ss, mid + 1, hi)

Flatten(ss) == FlattenRange(ss, 1, Len(ss))

\* The text of a block: the texts of its runs, in order.
BlockText(b) == Flatten([i \in 1..Len(b.runs) |-> b.runs[i].text])

IsTag(t) == t.k = "tag"

BlockTags(b) == SelectSeq(BlockText(b), IsTag)

\* open: {#name}; close: {/name}; item: {.}; prop: {name.length}; scalar: {name}
TagKind(t) ==
    IF t.sigil = "#" THEN "open"
    ELSE IF t.sigil = "/" THEN "close"
    ELSE IF t.name = "." THEN "item"
    ELSE IF t.prop # "" THEN "prop"
    ELSE "scalar"

\* The tags of block sequence d in order, each with its block's index.
DocTags(d) ==
    Flatten([i \in 1..Len(d) |->
                LET ts == BlockTags(d[i])
                IN  [j \in 1..Len(ts) |-> [tag |-> ts[j], block |-> i]]])

Front(s) == SubSeq(s, 1, Len(s) - 1)

Last(s) == s[Len(s)]

\* The sections open after tag t, given those open before it: an opening
\* tag pushes its name, a closing tag pops the innermost open section.
OpenAfter(scope, t) ==
    IF TagKind(t) = "open" THEN Append(scope, t.name)
    ELSE IF TagKind(t) = "close" /\ scope # <<>> THEN Front(scope)
    ELSE scope

\* The occurrences of tags ts from the n-th on, `scope` being the sections
\* open where the n-th stands: tag, block, kind, the sections open where it
\* stands (scope) and after it (after).
RECURSIVE Scan(_, _, _)
Scan(ts, n, scope) ==
    IF n > Len(ts) THEN <<>>
    ELSE LET after == OpenAfter(scope, ts[n].tag)
         IN  <<[tag |-> ts[n].tag, block |-> ts[n].block, kind |-> TagKind(ts[n].tag),
                scope |-> scope, after |-> after]>>
             \o Scan(ts, n + 1, after)

\* The occurrences of the tags of block sequence d.
Occurrences(d) == Scan(DocTags(d), 1, <<>>)

\* create_template has appended every block of p's document.
Built(p) == pc[p] \in {"save", "write", "close", "except", "end", "exited"}

-----------------------------------------------------------------------------
(* The render-time data contract: the scalar and iterable fields of the    *)
(* record at the top and of the elements of each iterable.                 *)

ContractScalars ==
    [top |-> {"customer_name", "assessment_date", "team_name", "security_score",
              "risk_level", "assessment_summary", "total_findings", "passed_count",
              "failed_count", "na_count", "critical_count", "high_count",
              "medium_count", "low_count", "score_movement_message", "tenant_id",
              "run_id"},
     priority_themes |-> {"title", "priority", "failed_count"},
     roadmap |-> {"priority", "theme", "window", "failed_count"},
     themes |-> {"title", "priority", "window", "risk_level", "pass_rate",
                 "business_rationale", "business_impact", "recommendation_summary"},
     failed_findings |-> {"control_id", "title", "severity"},
     remediation_steps |-> {},
     operational_notes |-> {}]

ContractIterables ==
    [top |-> {"priority_themes", "roadmap", "themes"},
     priority_themes |-> {},
     roadmap |-> {},
     themes |-> {"failed_findings", "remediation_steps", "operational_notes"},
     failed_findings |-> {},
     remediation_steps |-> {},
     operational_notes |-> {}]

\* The iterables whose elements are plain values, not records.
PlainIterables == {"remediation_steps", "operational_notes"}

\* The record shape a tag in sections `scope` is resolved against first.
Innermost(scope) == IF scope = <<>> THEN "top" ELSE Last(scope)

\* The data field the tag occurrence o names.  A closing tag stands inside
\* the section it closes and names what the opening tag named.
FieldAny(n, scope) ==
    LET RECURSIVE Find(_)
        Find(sc) ==
            IF n \in ContractScalars[Innermost(sc)] \cup ContractIterables[Innermost(sc)]
            THEN <<Innermost(sc), n>>
            ELSE IF sc = <<>> THEN <<"undefined", n>>
            ELSE Find(Front(sc))
    IN  Find(scope)

Meaning(o) ==
    IF o.kind = "close" /\ o.scope # <<>>
    THEN FieldAny(o.tag.name, Front(o.scope))
    ELSE FieldAny(o.tag.name, o.scope)

\* The data fields the occurrences of identifier n in d name.
Meanings(d, n) ==
    LET occ == Occurrences(d)
    IN  {Meaning(occ[i]) : i \in {j \in 1..Len(occ) :
                                    occ[j].kind # "item" /\ occ[j].tag.name = n}}

Identifiers(d) ==
    LET occ == Occurrences(d)
    IN  {occ[i].tag.name : i \in {j \in 1..Len(occ) : occ[j].kind # "item"}}

-----------------------------------------------------------------------------
(* The section tags of the emitted block sequence.                         *)

OpenNames(d) ==
    LET occ == Occurrences(d)
    IN  {occ[i].tag.name : i \in {j \in 1..Len(occ) : occ[j].kind = "open"}}

SectionsBalanced(d) ==
    LET occ == Occurrences(d)
        N == Len(occ)
        Opens(n, j) == {i \in 1..(j - 1) : occ[i].kind = "open" /\ occ[i].tag.name = n}
        Closes(n, j) == {i \in 1..(j - 1) : occ[i].kind = "close" /\ occ[i].tag.name = n}
    IN  /\ \A i \in 1..N :
              occ[i].kind = "open" =>
                  LET cl == Closes(occ[i].tag.name, N + 1)
                  IN  /\ Cardinality(cl) = 1
                      /\ \A j \in cl :
                            /\ occ[j].block > occ[i].block
                            /\ Len(occ[j].scope) - 1 = Len(occ[i].scope)
        /\ \A j \in 1..N :
              occ[j].kind = "close" =>
                  Cardinality(Opens(occ[j].tag.name, j))
                      > Cardinality(Closes(occ[j].tag.name, j))

\* C1: in the block sequence create_template emits, every opening section
\* tag has exactly one closing tag of the same name, in a later block and at
\* the same nesting depth, and no closing tag stands without an unmatched
\* opening tag of its name before it.
C1_SectionsBalanced == \A p \in Procs : Built(p) => SectionsBalanced(doc[p])

C1_Witness ==
    \E p \in Procs :
        /\ pc[p] = "exited"
        /\ OpenNames(doc[p]) = {"priority_themes", "roadmap", "themes", "failed_findings",
                                "remediation_steps", "operational_notes"}

-----------------------------------------------------------------------------
TopLevelScalars(d) ==
    LET occ == Occurrences(d)
    IN  {occ[i].tag.name : i \in {j \in 1..Len(occ) :
                                    occ[j].kind = "scalar" /\ occ[j].scope = <<>>}}

\* C2: the scalar tag identifiers emitted outside every section are exactly
\* the scalar fields of the data contract's top record.
C2_TopLevelScalarsMatchContract ==
    \A p \in Procs : Built(p) => TopLevelScalars(doc[p]) = ContractScalars.top

C2_Witness ==
    \E p \in Procs :
        /\ Built(p)
        /\ Cardinality(TopLevelScalars(doc[p])) = 17
        /\ "run_id" \in TopLevelScalars(doc[p])

-----------------------------------------------------------------------------
\* A tag inside a section fits the record shape of its innermost section.
FitsShape(o) ==
    LET in == Innermost(o.scope)
    IN  CASE o.kind = "scalar" -> o.tag.name \in ContractScalars[in]
          [] o.kind = "prop" ->
                /\ o.tag.prop = "length"
                /\ o.tag.name \in ContractIterables[in]
          [] o.kind = "item" -> in \in PlainIterables
          [] o.kind = "open" -> o.tag.name \in ContractIterables[in]
          [] OTHER -> TRUE

TagsFitShapes(d) ==
    LET occ == Occurrences(d)
    IN  \A i \in 1..Len(occ) :
            /\ occ[i].scope # <<>> => FitsShape(occ[i])
            /\ occ[i].kind = "item" => Innermost(occ[i].scope) \in PlainIterables
            /\ (occ[i].scope # <<>> /\ Innermost(occ[i].scope) \in PlainIterables) =>
                   occ[i].kind \in {"item", "close"}
            /\ occ[i].kind = "prop" =>
                   /\ occ[i].tag.name = "failed_findings"
                   /\ occ[i].scope = <<"themes">>

\* C3: every tag inside a section names a field of the record shape of its
\* innermost enclosing section; {.} stands only inside remediation_steps and
\* operational_notes, which hold no other tag; failed_findings.length stands
\* inside themes, outside its nested sections.
C3_TagsResolveInScope == \A p \in Procs : Built(p) => TagsFitShapes(doc[p])

C3_Witness ==
    \E p \in Procs :
        /\ Built(p)
        /\ LET occ == Occurrences(doc[p])
           IN  /\ \E i \in 1..Len(occ) :
                     occ[i].kind = "item" /\ occ[i].scope = <<"themes", "operational_notes">>
               /\ \E i \in 1..Len(occ) :
                     occ[i].tag.name = "severity" /\ occ[i].scope = <<"themes", "failed_findings">>
               /\ \E i \in 1..Len(occ) :
                     occ[i].tag.name = "theme" /\ occ[i].scope = <<"roadmap">>

-----------------------------------------------------------------------------
NestedSections == {"failed_findings", "remediation_steps", "operational_notes"}

NestingBounded(d) ==
    LET occ == Occurrences(d)
    IN  \A n \in 1..Len(occ) :
            /\ Len(occ[n].after) <= 2
            /\ (occ[n].kind = "open" /\ occ[n].scope # <<>>) =>
                   /\ occ[n].tag.name \in NestedSections
                   /\ occ[n].scope = <<"themes">>
            /\ (occ[n].kind = "close" /\ occ[n].tag.name = "themes") =>
                   occ[n].scope = <<"themes">>

\* C4: at every point of the block sequence at most two sections are open;
\* only failed_findings, remediation_steps and operational_notes are opened
\* inside another section, each while themes alone is open (so each is
\* closed before the next opens), and none is open at {/themes}.
C4_NestingAtMostTwo == \A p \in Procs : NestingBounded(doc[p])

C4_Witness ==
    \E p \in Procs :
        /\ pc[p] = "build"
        /\ LET occ == Occurrences(doc[p])
           IN  occ # <<>> /\ Last(occ).after = <<"themes", "remediation_steps">>

-----------------------------------------------------------------------------
\* The identifiers that name more than one data field.
Reused(d) == {n \in Identifiers(d) : Cardinality(Meanings(d, n)) > 1}

\* C9 as stated: every identifier names the same data field at each of its
\* occurrences, whatever section it stands in.
C9_Original_OneMeaningPerIdentifier ==
    \A p \in Procs : Built(p) => Reused(doc[p]) = {}

\* C9: failed_count, risk_level, title, priority and window name the field
\* of the innermost enclosing record and so a different field in each scope
\* they stand in; every other identifier names one data field at all of its
\* occurrences.
C9_OneMeaningExceptScopedFields ==
    \A p \in Procs :
        Built(p) =>
            Reused(doc[p]) = {"failed_count", "risk_level", "title", "priority", "window"}

C9_Witness ==
    \E p \in Procs :
        /\ Built(p)
        /\ Meanings(doc[p], "assessment_date") = {<<"top", "assessment_date">>}
        /\ Cardinality({b \in 1..Len(doc[p]) :
                          \E i \in 1..Len(BlockTags(doc[p][b])) :
                              BlockTags(doc[p][b])[i].name = "assessment_date"}) = 3
        /\ Meanings(doc[p], "failed_count") =
               {<<"top", "failed_count">>, <<"priority_themes", "failed_count">>,
                <<"roadmap", "failed_count">>}

-----------------------------------------------------------------------------
(* The outcome of a save that fails.                                       *)

Failed(p) == exc[p] # "none"

ReportedSuccess(p) == \E i \in 1..Len(out[p]) : out[p][i] = SummaryLines[1]

\* Every invocation that was started has exited.
Quiescent == launched # <<>> /\ \A p \in Procs : pc[p] \in {"idle", "exited"}

\* C6: when the output path cannot be written the build fails: no success
\* message is printed, the write is not tried again, and the run does not
\* complete normally (its exit status is not 0).
C6_WriteFailureIsFatal ==
    \A p \in Procs :
        (pc[p] = "exited" /\ Failed(p)) =>
            /\ ~ReportedSuccess(p)
            /\ opens[p] = 1
            /\ exitStatus[p] # 0

\* What the script does keep of C6: the failure reaches the entry point,
\* which prints it; no success message, one call of the save.
C6_FailureIsPrintedNotRetried ==
    \A p \in Procs :
        (pc[p] = "exited" /\ Failed(p)) =>
            /\ ~ReportedSuccess(p)
            /\ opens[p] = 1
            /\ out[p] = ErrorLines(exc[p])

-----------------------------------------------------------------------------
\* The cells of the file that an invocation wrote.
WrittenCells == {i \in 1..Len(file.cells) : file.cells[i].by \in Procs}

\* The file holds the whole artifact and nothing else.
CompleteArtifact ==
    /\ file.exists
    /\ Len(file.cells) = NumChunks
    /\ WrittenCells = 1..NumChunks
    /\ \E p \in Procs : Built(p) /\ FileBlocks(file.cells) = doc[p]

\* C7: once the builds have ended, the output location holds nothing any
\* of them wrote, or the complete artifact; never a part of it.
C7_NoPartialFile == Quiescent => (WrittenCells = {} \/ CompleteArtifact)

-----------------------------------------------------------------------------
\* The invocation started last.
LastRun == launched[Len(launched)]

Succeeded(p) == pc[p] = "exited" /\ ~Failed(p)

\* C8: after a run that succeeds, alone or after an earlier run and
\* whatever the output path held, the file is the artifact of that run and
\* nothing else: every cell is the last run's, the blocks are those the run
\* built, the same as every earlier run built, and the run opened the file
\* once.
C8_RerunLeavesSameArtifact ==
    (launched # <<>> /\ Succeeded(LastRun)) =>
        /\ file.exists
        /\ Len(file.cells) = NumChunks
        /\ \A i \in 1..Len(file.cells) : file.cells[i].by = LastRun
        /\ FileBlocks(file.cells) = doc[LastRun]
        /\ \A q \in Procs : Built(q) => doc[q] = doc[LastRun]
        /\ opens[LastRun] = 1

C8_Witness ==
    /\ Len(launched) = 2
    /\ \A p \in Procs : Succeeded(p)
    /\ \A i \in 1..Len(file.cells) : file.cells[i].by = LastRun

-----------------------------------------------------------------------------
\* C10: nothing serialises the writes of two invocations: an invocation
\* that has built its document can open, and so cut, the file whatever the
\* other invocation is doing with it, and one that has opened it can write.
C10_NothingSerialisesWrites ==
    \A p \in Procs :
        /\ pc[p] = "save" => ENABLED SaveOpen(p)
        /\ pc[p] = "write" => ENABLED SaveWrite(p)

\* Both invocations saved without an error and exited, and the file is the
\* work of both: the complete artifact of neither.
C10_Witness ==
    /\ \A p \in Procs : Succeeded(p)
    /\ \E i, j \in 1..Len(file.cells) : file.cells[i].by # file.cells[j].by
    /\ \A p \in Procs : \E i \in 1..Len(file.cells) : file.cells[i].by # p

-----------------------------------------------------------------------------
(* Rendering.  The renderer is handed the block sequence and a data object *)
(* of the contract's shape.  It repeats the blocks between {#name} and the *)
(* matching {/name} once per element of iterable `name`, resolves the tags *)
(* of every other block in the scope of the elements it stands in, and     *)
(* fails on a section tag without its partner.  A data object keeps of     *)
(* each list what the repetition depends on: its elements' own lists, or   *)
(* its length.                                                             *)

ThemeShapes ==
    [failed_findings : 0..MaxItems, remediation_steps : 0..MaxItems,
     operational_notes : 0..MaxItems]

DataObjects ==
    [priority_themes : 0..MaxTop,
     roadmap : 0..MaxTop,
     themes : UNION {[1..n -> ThemeShapes] : n \in 0..MaxThemes}]

\* The section tag of a block, if it holds one.
SectionTags(b) == SelectSeq(BlockTags(b), LAMBDA t : TagKind(t) \in {"open", "close"})

IsOpenBlock(b) == SectionTags(b) # <<>> /\ TagKind(SectionTags(b)[1]) = "open"

IsCloseBlock(b) == SectionTags(b) # <<>> /\ TagKind(SectionTags(b)[1]) = "close"

SectionName(b) == SectionTags(b)[1].name

PathNames(path) == [i \in 1..Len(path) |-> path[i].name]

\* The number of elements of iterable n for a tag inside the elements
\* `path`: the list of the innermost element that has one of that name.
IterCount(d, n, path) ==
    LET RECURSIVE Find(_)
        Find(pa) ==
            IF pa = <<>>
            THEN IF n \in {"priority_themes", "roadmap"} THEN d[n]
                 ELSE IF n = "themes" THEN Len(d.themes)
                 ELSE 0
            ELSE IF Len(pa) = 1 /\ pa[1].name = "themes" /\ n \in DOMAIN d.themes[pa[1].idx]
            THEN d.themes[pa[1].idx][n]
            ELSE Find(Front(pa))
    IN  Find(path)

\* What a tag is replaced by: the field it names, the element it is
\* resolved in, and for {name.length} the number of elements.
Resolve(d, t, path) ==
    [field |-> IF TagKind(t) = "item" THEN <<Innermost(PathNames(path)), ".">>
               ELSE FieldAny(t.name, PathNames(path)),
     elem |-> path,
     n |-> IF TagKind(t) = "prop" /\ t.prop = "length" THEN IterCount(d, t.name, path)
           ELSE -1]

RenderBlock(d, b, tags, path) ==
    [line |-> b.line, style |-> b.style, scope |-> path,
     values |-> [i \in 1..Len(tags) |-> Resolve(d, tags[i], path)]]

RenderError == [ok |-> FALSE, blocks |-> <<>>]

\* What the renderer reads of block b first: its tags, and whether it
\* holds a section tag.
Parsed(b) ==
    [tags |-> BlockTags(b),
     mark |-> IF IsOpenBlock(b) THEN "open"
              ELSE IF IsCloseBlock(b) THEN "close"
              ELSE "",
     name |-> IF SectionTags(b) # <<>> THEN SectionName(b) ELSE ""]

RECURSIVE ParsedRange(_, _, _)
ParsedRange(bs, lo, hi) ==
    IF lo > hi THEN <<>>
    ELSE IF lo = hi THEN <<Parsed(bs[lo])>>
    ELSE LET mid == (lo + hi) \div 2
         IN  ParsedRange(bs, lo, mid) \o ParsedRange(bs, mid + 1, hi)

\* The rendering of blocks bs for data object d.
Render(bs, d) ==
    LET ps == ParsedRange(bs, 1, Len(bs))
        SetMin(S) == CHOOSE x \in S : \A y \in S : x <= y
        OpensIn(lo, hi) == {i \in lo..hi : ps[i].mark = "open"}
        ClosesIn(lo, hi) == {i \in lo..hi : ps[i].mark = "close"}
        \* the closing tags after the opening tag at k that leave no section
        \* opened after k open
        Partners(k, hi) ==
            {j \in ClosesIn(k + 1, hi) :
                Cardinality(OpensIn(k + 1, j - 1)) = Cardinality(ClosesIn(k + 1, j - 1))}
        Plain(lo, hi, path) ==
            [i \in 1..(hi - lo + 1) |->
                RenderBlock(d, bs[lo + i - 1], ps[lo + i - 1].tags, path)]
        RECURSIVE Range(_, _, _)
        RECURSIVE Repeat(_, _, _, _, _)
        \* the blocks lo..hi, inside the elements path
        Range(lo, hi, path) ==
            IF lo > hi THEN [ok |-> TRUE, blocks |-> <<>>]
            ELSE IF OpensIn(lo, hi) = {}
            THEN IF ClosesIn(lo, hi) # {} THEN RenderError
                 ELSE [ok |-> TRUE, blocks |-> Plain(lo, hi, path)]
            ELSE LET k == SetMin(OpensIn(lo, hi))
                     partners == Partners(k, hi)
                 IN  IF ClosesIn(lo, k - 1) # {} \/ partners = {}
                     THEN RenderError
                     ELSE LET j == SetMin(partners)
                              name == ps[k].name
                              reps == Repeat(k + 1, j - 1, path, name,
                                             IterCount(d, name, path))
                              rest == Range(j + 1, hi, path)
                          IN  IF ps[j].name # name \/ ~reps.ok \/ ~rest.ok
                              THEN RenderError
                              ELSE [ok |-> TRUE,
                                    blocks |-> Plain(lo, k - 1, path)
                                                   \o reps.blocks \o rest.blocks]
        \* the blocks lo..hi once for each of the first cnt elements of name
        Repeat(lo, hi, path, name, cnt) ==
            IF cnt = 0 THEN [ok |-> TRUE, blocks |-> <<>>]
            ELSE LET first == Repeat(lo, hi, path, name, cnt - 1)
                     one == Range(lo, hi, Append(path, [name |-> name, idx |-> cnt]))
                 IN  IF ~first.ok \/ ~one.ok THEN RenderError
                     ELSE [ok |-> TRUE, blocks |-> first.blocks \o one.blocks]
        all == Range(1, Len(bs), <<>>)
    IN  [ok |-> all.ok, blocks |-> all.blocks, done |-> TRUE]

\* The renderer is handed some data object for the block sequence p emitted.
LoadData(p) ==
    /\ pc[p] = "save"
    /\ data = NoData
    /\ data' \in DataObjects
    /\ UNCHANGED <<pc, ip, styles, doc, file, offset, opens, exc, out, exitStatus,
                   launched, rendered>>

\* The renderer renders the block sequence p emitted.
RenderTemplate(p) ==
    /\ pc[p] = "save"
    /\ data # NoData
    /\ ~rendered.done
    /\ rendered' = Render(doc[p], data)
    /\ UNCHANGED <<pc, ip, styles, doc, file, offset, opens, exc, out, exitStatus,
                   launched, data>>

\* One invocation builds its document, which is then rendered; nothing is
\* at the output path.
InitRender == Init /\ file = NoFile

NextRender ==
    \E p \in {"A"} :
        \/ StartAlone(p)
        \/ ConfigureStyles(p)
        \/ AddParagraph(p)
        \/ AddHeading(p)
        \/ AddPageBreak(p)
        \/ AddRun(p)
        \/ LoadData(p)
        \/ RenderTemplate(p)

SpecRender == InitRender /\ [][NextRender]_vars

\* The rendered blocks that stand in element e of iterable name inside
\* `path`, and in no section nested in it.
Copies(path, name, e) ==
    {k \in 1..Len(rendered.blocks) :
        rendered.blocks[k].scope = Append(path, [name |-> name, idx |-> e])}

\* The rendered blocks that stand in any element of iterable name inside `path`.
AllCopies(path, name) ==
    {k \in 1..Len(rendered.blocks) :
        /\ Len(rendered.blocks[k].scope) = Len(path) + 1
        /\ Front(rendered.blocks[k].scope) = path
        /\ Last(rendered.blocks[k].scope).name = name}

IsListItem(k) == rendered.blocks[k].style \in {"List Bullet", "List Number"}

\* One list item for each of the n elements of iterable name inside `path`,
\* and none besides.
OneItemPerElement(path, name, n) ==
    /\ Cardinality({k \in AllCopies(path, name) : IsListItem(k)}) = n
    /\ \A e \in 1..n :
          Cardinality({k \in Copies(path, name, e) : IsListItem(k)}) = 1

\* One copy of the body for each of the n elements of iterable name inside
\* `path`, and none besides; the body holds `size` blocks.
OneBodyPerElement(path, name, n, size) ==
    /\ Cardinality(AllCopies(path, name)) = n * size
    /\ \A e \in 1..n : Cardinality(Copies(path, name, e)) = size

\* The values {name.length} was replaced by in the blocks of element i of themes.
LengthValues(i) ==
    LET at == {k \in 1..Len(rendered.blocks) :
                 rendered.blocks[k].scope = <<[name |-> "themes", idx |-> i]>>}
    IN  UNION {{rendered.blocks[k].values[v].n :
                  v \in {w \in 1..Len(rendered.blocks[k].values) :
                           rendered.blocks[k].values[w].n # -1}} : k \in at}

\* The header of the themes section rendered for element i.
ThemeHeaders(i) ==
    {k \in Copies(<<>>, "themes", i) : rendered.blocks[k].style = "Heading 2"}

\* C5: rendering the emitted block sequence succeeds for every data object
\* and yields one copy of each section's body per element: per themes
\* element one header, as many failed-finding, remediation-step and
\* operational-note list items as the element has of each, and
\* failed_findings.length replaced by the number of its failed findings;
\* one item per element of priority_themes and of roadmap; nothing repeated
\* for an empty iterable.
C5_RenderRepeatsBodyPerElement ==
    rendered.done =>
        /\ rendered.ok
        /\ OneItemPerElement(<<>>, "priority_themes", data.priority_themes)
        /\ OneBodyPerElement(<<>>, "priority_themes", data.priority_themes, 1)
        /\ OneBodyPerElement(<<>>, "roadmap", data.roadmap, 1)
        /\ Cardinality({k \in AllCopies(<<>>, "themes") :
                          rendered.blocks[k].style = "Heading 2"}) = Len(data.themes)
        /\ \A k \in 1..Len(rendered.blocks) :
              /\ Len(rendered.blocks[k].scope) <= 2
              /\ Len(rendered.blocks[k].scope) = 2 =>
                    /\ rendered.blocks[k].scope[1].name = "themes"
                    /\ rendered.blocks[k].scope[1].idx \in 1..Len(data.themes)
                    /\ rendered.blocks[k].scope[2].name \in NestedSections
        /\ \A i \in 1..Len(data.themes) :
              LET in == <<[name |-> "themes", idx |-> i]>>
              IN  /\ Cardinality(ThemeHeaders(i)) = 1
                  /\ LengthValues(i) = {data.themes[i].failed_findings}
                  /\ \A s \in NestedSections :
                        /\ OneItemPerElement(in, s, data.themes[i][s])
                        /\ OneBodyPerElement(in, s, data.themes[i][s], 1)

\* The data object of the example is rendered: one themes element with two
\* failed findings, one remediation step and no operational note.
C5_Witness ==
    /\ rendered.done
    /\ rendered.ok
    /\ data.themes = <<[failed_findings |-> 2, remediation_steps |-> 1,
                        operational_notes |-> 0]>>
    /\ Cardinality(AllCopies(<<[name |-> "themes", idx |-> 1]>>, "failed_findings")) = 2
    /\ Cardinality(AllCopies(<<[name |-> "themes", idx |-> 1]>>, "remediation_steps")) = 1
    /\ Cardinality(AllCopies(<<[name |-> "themes", idx |-> 1]>>, "operational_notes")) = 0
    /\ LengthValues(1) = {2}

\* The data object with empty themes, priority_themes and roadmap is
\* rendered: no error, and no block of any section's body.
C5_WitnessEmpty ==
    /\ rendered.done
    /\ rendered.ok
    /\ data = [priority_themes |-> 0, roadmap |-> 0, themes |-> <<>>]
    /\ \A k \in 1..Len(rendered.blocks) : rendered.blocks[k].scope = <<>>

=============================================================================
